---- MODULE Spec2Model ----
(***************************************************************************)
(* JalVaarta: a citizen hazard-reporting dashboard.  The model covers the  *)
(* relational store (profiles, reports, predictions, prediction_alerts)    *)
(* with its row-level security policies and triggers, the browser client   *)
(* (AuthProvider, ProtectedRoute, Layout, the pages and their handlers),   *)
(* and the alert-zone clustering of MapboxMap.                             *)
(***************************************************************************)
EXTENDS Integers, Sequences, FiniteSets, TLC

(* ------------------------------ bounds -------------------------------- *)
MaxUsers == 2
MaxReports == 1
MaxPredictions == 1
MaxAlerts == 1
MaxZoneReports == 3
MaxDashReports == 6
MaxLocations == 2
MaxChanges == 2

(* ------------------------------ values -------------------------------- *)
\* auth.users ids; 0 stands for SQL NULL / JavaScript null of a user id.
Users == 1..MaxUsers
NoUser == 0

\* CREATE TYPE public.user_role
user_role == {"citizen", "analyst", "disaster_manager"}

\* CREATE TYPE public.report_status
report_status == {"pending", "verified", "rejected"}

\* the role list of the "analysts and managers" policies
StaffRoles == {"analyst", "disaster_manager"}

\* raw_user_meta_data->>'role' of a new auth user: absent, a label of
\* user_role, or a text that is no label of the enum
NoRole == "absent"
BadRole == "not_a_role"
MetaRoles == user_role \cup {NoRole, BadRole}

\* the profile held by the AuthProvider context when none is loaded
NoProfile == [user_id |-> NoUser, role |-> "none"]

VARIABLES
    \* ---- database ----
    authUsers,      \* auth.users: set of user ids
    profiles,       \* public.profiles: sequence of rows
    reports,        \* public.reports: sequence of rows, id = index
    predictions,    \* public.predictions: sequence of rows
    alerts,         \* public.prediction_alerts: sequence of rows
    \* ---- supabase client / AuthProvider ----
    authSession,    \* the session the supabase client stores (survives reload)
    boot,           \* start-up callbacks of AuthProvider still to run
    user,           \* AuthProvider state: user
    profile,        \* AuthProvider state: profile
    loading,        \* AuthProvider state: loading
    profilePending, \* profile fetches scheduled by onAuthStateChange, unanswered
    \* ---- router and page-local state ----
    route,          \* current location
    adminDeps,      \* AdminPanel: isAdmin value of the last effect run
    adminLoading,   \* AdminPanel: loading
    adminReports,   \* AdminPanel: reports (as fetched)
    adminUsers,     \* AdminPanel: users (the rows fetched)
    selectedReport, \* AdminPanel: selectedReport (id; 0 = null)
    dmDeps,         \* DisasterManagement: isDisasterManager of the last effect run
    dmLoading,      \* DisasterManagement: loading
    dmReports,      \* DisasterManagement: reports (as fetched)
    dmTotalUsers,   \* DisasterManagement: stats.totalUsers
    dmSelected,     \* DisasterManagement: selectedReport (id; 0 = null)
    location,       \* ReportHazard: location captured
    file,           \* ReportHazard: file (<<>> = null, else <<size in bytes>>)
    inputFile,      \* ReportHazard: the file held by the form's file input
    \* ---- alert zones (MapboxMap) ----
    mapReports,     \* MapboxMap prop: reports
    alertZones,     \* MapboxMap state: alertZones
    \* ---- toasts and the storage bucket ----
    toast,          \* title of the last toast shown
    bucket,         \* storage bucket hazard-media: sizes of the objects stored
    \* ---- DisasterManagement dashboard ----
    now,            \* new Date().getTime(), in minutes
    dashReports,    \* reports state with hazard_type and created_at
    pendingQueue,   \* rendered "Pending Verification Queue": <<id, level>>
    criticalAlerts, \* rendered "Critical Alerts" card: report ids
    \* ---- edge functions ----
    gpRun,          \* last generate-predictions run: alerts returned by
                    \* ai-predictions, alert rows stored, response counts
    ofRun,          \* last ocean_forecast request: environment, body,
                    \* whether the forecast was fetched, and the response
    \* ---- MapView and the realtime channel ----
    mvDb,           \* contents of table reports, named by the number of
                    \* changes made to it
    mvMounted,      \* MapView is mounted and its channel subscribed
    mvEvents,       \* postgres_changes events not yet delivered
    mvStarted,      \* number of fetchReports calls started
    mvFetches,      \* fetchReports calls in flight: [n, data], data = NoData
                    \* until the server has run the SELECT
    mvLatest,       \* data of the most recently started fetchReports
    mvReports       \* MapView: reports state (NoData = the initial [])

dbVars == <<authUsers, profiles, reports, predictions, alerts>>
authVars == <<authSession, boot, user, profile, loading, profilePending>>
adminVars == <<adminDeps, adminLoading, adminReports, adminUsers, selectedReport>>
dmVars == <<dmDeps, dmLoading, dmReports, dmTotalUsers, dmSelected>>
formVars == <<location, file, inputFile>>
pageVars == <<adminVars, dmVars, formVars>>
mapVars == <<mapReports, alertZones>>
dashVars == <<now, dashReports, pendingQueue, criticalAlerts>>
fnVars == <<gpRun, ofRun>>
feedVars == <<mvDb, mvMounted, mvEvents, mvStarted, mvFetches, mvLatest,
              mvReports>>
otherVars == <<toast, bucket, dashVars, fnVars, feedVars>>
vars == <<dbVars, authVars, route, pageVars, mapVars, otherVars>>

(* ------------------------- database helpers --------------------------- *)
\* the indexes of the profile rows of a user
ProfilesOf(uid) == {i \in 1..Len(profiles) : profiles[i].user_id = uid}

\* EXISTS (SELECT 1 FROM public.profiles WHERE user_id = auth.uid()
\*         AND role IN ('analyst', 'disaster_manager'))
IsStaff(uid) ==
    \E i \in ProfilesOf(uid) : profiles[i].role \in StaffRoles

\* the role a request with auth.uid() = uid runs with ("none": no profile row)
RoleOf(uid) ==
    IF ProfilesOf(uid) = {} THEN "none"
    ELSE profiles[CHOOSE i \in ProfilesOf(uid) : TRUE].role

(* ------------------- row-level security: profiles --------------------- *)
\* "Users can view their own profile"
profiles_select_using(uid, row) == uid # NoUser /\ uid = row.user_id

\* "Users can update their own profile" (USING, and WITH CHECK by default)
profiles_update_using(uid, row) == uid # NoUser /\ uid = row.user_id

\* "Users can insert their own profile"
profiles_insert_check(uid, row) == uid # NoUser /\ uid = row.user_id

\* supabase.from('profiles').select(...): the rows the policies let uid see
SelectProfiles(uid) ==
    SelectSeq(profiles, LAMBDA row : profiles_select_using(uid, row))

(* -------------------- row-level security: reports --------------------- *)
\* "Anyone can view reports"
reports_select_using(uid, row) == TRUE

\* "Authenticated users can create reports"
reports_insert_check(uid, row) == uid # NoUser /\ uid = row.user_id

\* "Users can update their own reports"
reports_update_own(uid, row) == uid # NoUser /\ uid = row.user_id

\* "Analysts and managers can verify reports"
reports_update_staff(uid, row) == IsStaff(uid)

\* permissive policies of one command are OR-ed; a policy with USING only
\* applies the same expression to the new row
reports_update_allowed(uid, old, new) ==
    /\ reports_update_own(uid, old) \/ reports_update_staff(uid, old)
    /\ reports_update_own(uid, new) \/ reports_update_staff(uid, new)

SelectReports(uid) ==
    SelectSeq(reports, LAMBDA row : reports_select_using(uid, row))

\* variant: the row a table with status DEFAULT 'verified' would store
NewReportDefaultVerified(owner, st, via) ==
    [user_id |-> owner, status |-> IF st = "DEFAULT" THEN "verified" ELSE st,
     verified_by |-> NoUser,
     verified_at |-> FALSE, created_via |-> via,
     status_role |-> "none", status_via |-> "none"]

\* a new row of public.reports: status DEFAULT 'pending', verified_by and
\* verified_at NULL unless the INSERT names them.  created_via, status_role
\* and status_via are history fields: the operation that created the row,
\* and the role and operation of the request that last changed its status.
NewReport(owner, st, via) ==
    [user_id |-> owner, status |-> IF st = "DEFAULT" THEN "pending" ELSE st,
     verified_by |-> NoUser,
     verified_at |-> FALSE, created_via |-> via,
     status_role |-> "none", status_via |-> "none"]

\* INSERT INTO reports by a request of uid
ReportsAfterInsert(uid, row) ==
    IF reports_insert_check(uid, row) /\ row.user_id \in authUsers
    THEN Append(reports, row)
    ELSE reports

\* UPDATE reports SET ... WHERE id = rid by a request of uid: rows the USING
\* clause hides are not updated (no error); a new row failing the check is
\* an error; either way nothing is written
ReportsAfterUpdate(uid, rid, new) ==
    IF rid \in 1..Len(reports) /\ reports_update_allowed(uid, reports[rid], new)
    THEN [reports EXCEPT ![rid] = new]
    ELSE reports

\* the row written by .update({status, verified_by, verified_at: now})
VerifiedRow(old, uid, st, by, via) ==
    [old EXCEPT !.status = st, !.verified_by = by, !.verified_at = TRUE,
                !.status_role = IF st # old.status THEN RoleOf(uid) ELSE @,
                !.status_via = IF st # old.status THEN via ELSE @]

(* --------------------- trigger on auth.users --------------------------- *)
\* variant: a trigger whose fallback role is analyst
handle_new_user_role_analyst(metaRole) ==
    IF metaRole = NoRole THEN "analyst" ELSE metaRole

\* handle_new_user(): the role of the profile row it inserts
\* COALESCE(NEW.raw_user_meta_data->>'role', 'citizen')::user_role
handle_new_user_role(metaRole) ==
    IF metaRole = NoRole THEN "citizen" ELSE metaRole

\* the trigger raises (and the INSERT into auth.users rolls back) when the
\* cast to user_role fails or profiles.user_id UNIQUE is violated
handle_new_user_ok(uid, metaRole) ==
    /\ handle_new_user_role(metaRole) \in user_role
    /\ ProfilesOf(uid) = {}

\* AFTER INSERT ON auth.users FOR EACH ROW EXECUTE FUNCTION handle_new_user()
handle_new_user(uid, metaRole, via) ==
    Append(profiles, [user_id |-> uid, role |-> handle_new_user_role(metaRole),
                      via |-> via])

\* gen_random_uuid(): a fresh id (the least unused one)
FreshUser == Cardinality(authUsers) + 1

\* supabase.auth.signUp: INSERT INTO auth.users with the given metadata
auth_signUp(metaRole, via) ==
    /\ FreshUser \in Users
    /\ handle_new_user_ok(FreshUser, metaRole)
    /\ authUsers' = authUsers \cup {FreshUser}
    /\ profiles' = handle_new_user(FreshUser, metaRole, via)

(* ------------------------------ router -------------------------------- *)
\* the child routes of the protected route "/" (App)
ProtectedRoutes ==
    {"/", "/report", "/map", "/social", "/disaster", "/admin", "/profile",
     "/settings"}

\* the locations the router can be at: the above, /auth, and a path that only
\* the catch-all route matches (the sidebar links to it)
Routes == ProtectedRoutes \cup {"/auth", "/ai-predictions"}

\* AppSidebar: navigationItems, url |-> roles
navigationItems ==
    [url \in ProtectedRoutes \cup {"/ai-predictions"} |->
        CASE url \in {"/", "/report", "/map"} -> user_role
          [] url \in {"/social", "/disaster", "/admin", "/ai-predictions"}
                -> {"analyst", "disaster_manager"}
          [] OTHER -> {}]

\* AppSidebar: filteredItems (the urls shown to the holder of profile p)
filteredItems(p) ==
    {url \in DOMAIN navigationItems : p.role \in navigationItems[url]}

\* Index: the links of the Quick Actions card shown to the holder of profile p
QuickActions(p) ==
    {"/report", "/map", "/social"} \cup
    (IF p.role = "analyst" \/ p.role = "disaster_manager" THEN {"/admin"} ELSE {})

\* variants: a page gate that lets every role in
isAdminAnyRole(p) == p.role \in user_role

isDisasterManagerAnyRole(p) == p.role \in user_role

\* AdminPanel: isAdmin
isAdmin(p) == p.role = "analyst" \/ p.role = "disaster_manager"

\* DisasterManagement: isDisasterManager
isDisasterManager(p) == p.role = "disaster_manager" \/ p.role = "analyst"

\* AdminPanel: what the component returns
AdminPanel ==
    IF ~isAdmin(profile) THEN "AccessDenied"
    ELSE IF adminLoading THEN "AdminLoading"
    ELSE "AdminPanel"

\* DisasterManagement: what the component returns
DisasterManagement ==
    IF ~isDisasterManager(profile) THEN "AccessDenied"
    ELSE IF dmLoading THEN "DisasterLoading"
    ELSE "DisasterManagement"

\* the element of each child route
PageElement(r) ==
    CASE r = "/" -> "Index"
      [] r = "/report" -> "ReportHazard"
      [] r = "/map" -> "MapView"
      [] r = "/social" -> "SocialMedia"
      [] r = "/disaster" -> DisasterManagement
      [] r = "/admin" -> AdminPanel
      [] r = "/profile" -> "Profile"
      [] r = "/settings" -> "Settings"

\* Layout: loading screen, redirect, or sidebar + top bar + <Outlet />
Layout(outlet) ==
    IF loading THEN "LayoutLoading"
    ELSE IF user = NoUser THEN "NavigateAuth"
    ELSE outlet

\* variant: a ProtectedRoute without the loading branch
ProtectedRouteNoLoading(children) ==
    IF user = NoUser THEN "NavigateAuth"
    ELSE children

\* ProtectedRoute: spinner, redirect, or its children
ProtectedRoute(children) ==
    IF loading THEN "Spinner"
    ELSE IF user = NoUser THEN "NavigateAuth"
    ELSE children

\* App: what the router renders at route r
Render(r) ==
    IF r = "/auth" THEN "Auth"
    ELSE IF r \in ProtectedRoutes THEN ProtectedRoute(Layout(PageElement(r)))
    ELSE "NotFound"

View == Render(route)

\* the views that are the content of a page (not a spinner, a redirect, the
\* sign-in page or the 404 page)
PageContents ==
    {"Index", "ReportHazard", "MapView", "SocialMedia", "AccessDenied",
     "DisasterLoading", "DisasterManagement", "AdminLoading", "AdminPanel",
     "Profile", "Settings"}

\* the sidebar is part of Layout's third branch
SidebarShown == View \in PageContents

(* ------------------------- page-local state --------------------------- *)
NoSelection == [id |-> 0, status |-> "none"]

\* a page's state when it mounts
PageInit ==
    /\ adminDeps = "unset" /\ adminLoading = TRUE /\ adminReports = <<>>
    /\ adminUsers = <<>> /\ selectedReport = NoSelection
    /\ dmDeps = "unset" /\ dmLoading = TRUE /\ dmReports = <<>>
    /\ dmTotalUsers = 0 /\ dmSelected = 0
    /\ location = FALSE /\ file = <<>> /\ inputFile = <<>>

\* the page is unmounted (a route change, or ProtectedRoute stops rendering
\* its children): the next mount starts from the initial state
PageReset ==
    /\ adminDeps' = "unset" /\ adminLoading' = TRUE /\ adminReports' = <<>>
    /\ adminUsers' = <<>> /\ selectedReport' = NoSelection
    /\ dmDeps' = "unset" /\ dmLoading' = TRUE /\ dmReports' = <<>>
    /\ dmTotalUsers' = 0 /\ dmSelected' = 0
    /\ location' = FALSE /\ file' = <<>> /\ inputFile' = <<>>

(* ---------------------------- AuthProvider ---------------------------- *)
\* the callback given to supabase.auth.onAuthStateChange, for a session of
\* user s (NoUser: no session)
onAuthStateChange(s) ==
    /\ user' = s
    /\ IF s # NoUser
       THEN profilePending' = profilePending \cup {s} /\ profile' = profile
       ELSE profile' = NoProfile /\ profilePending' = profilePending
    /\ loading' = FALSE

\* the page is reloaded: React state starts over, the stored session stays,
\* and AuthProvider's effect subscribes and calls getSession
Reload ==
    /\ user' = NoUser /\ profile' = NoProfile /\ loading' = TRUE
    /\ profilePending' = {}
    /\ boot' = {"getSession", "INITIAL_SESSION"}
    /\ PageReset
    /\ UNCHANGED <<dbVars, authSession, route, mapVars, otherVars>>

\* supabase.auth.getSession().then(...)
getSession_then ==
    /\ "getSession" \in boot
    /\ boot' = boot \ {"getSession"}
    /\ user' = authSession
    /\ loading' = IF authSession = NoUser THEN FALSE ELSE loading
    /\ UNCHANGED <<dbVars, authSession, profile, profilePending, route,
                   pageVars, mapVars, otherVars>>

\* the INITIAL_SESSION event
InitialSession ==
    /\ "INITIAL_SESSION" \in boot
    /\ boot' = boot \ {"INITIAL_SESSION"}
    /\ onAuthStateChange(authSession)
    /\ UNCHANGED <<dbVars, authSession, route, pageVars, mapVars, otherVars>>

\* the TOKEN_REFRESHED event of a stored session
TokenRefreshed ==
    /\ boot = {} /\ authSession # NoUser
    /\ authSession \notin profilePending
    /\ onAuthStateChange(authSession)
    /\ UNCHANGED <<dbVars, authSession, boot, route, pageVars, mapVars, otherVars>>

\* setTimeout callback of onAuthStateChange: the profile of s is read
\* (.eq('user_id', s).maybeSingle(), with the client's current session) and
\* stored
profileFetched(s) ==
    /\ s \in profilePending
    /\ profilePending' = profilePending \ {s}
    /\ LET rows == SelectSeq(SelectProfiles(authSession),
                              LAMBDA row : row.user_id = s)
       IN profile' = IF Len(rows) = 1 THEN rows[1] ELSE NoProfile
    /\ UNCHANGED <<dbVars, authSession, boot, user, loading, route, pageVars,
                   mapVars, otherVars>>

\* AuthProvider.signUp(email, password, name), called from the Auth page:
\* the metadata carries a name only
signUpStep ==
    /\ auth_signUp(NoRole, "AuthProvider.signUp")
    /\ UNCHANGED <<reports, predictions, alerts, authVars, route, pageVars,
                   mapVars, otherVars>>

signUp ==
    /\ route = "/auth"
    /\ signUpStep

\* a sign-up request whose metadata names a role (handle_new_user reads it)
signUpWithRole(metaRole) ==
    /\ auth_signUp(metaRole, "metadata")
    /\ UNCHANGED <<reports, predictions, alerts, authVars, route, pageVars,
                   mapVars, otherVars>>

\* AuthProvider.signIn succeeding for user s, called from the Auth page;
\* the SIGNED_IN event follows
signIn(s) ==
    /\ route = "/auth" /\ boot = {}
    /\ s \in authUsers
    /\ authSession' = s
    /\ onAuthStateChange(s)
    /\ UNCHANGED <<dbVars, boot, route, pageVars, mapVars, otherVars>>

\* AuthProvider.signOut succeeding; the SIGNED_OUT event follows
signOut ==
    /\ boot = {} /\ authSession # NoUser
    /\ authSession' = NoUser
    /\ onAuthStateChange(NoUser)
    /\ PageReset
    /\ UNCHANGED <<dbVars, boot, route, mapVars, otherVars>>

(* ----------------------------- navigation ----------------------------- *)
\* <Navigate to="/auth" replace /> rendered by ProtectedRoute or Layout
NavigateAuth ==
    /\ View = "NavigateAuth"
    /\ route' = "/auth"
    /\ PageReset
    /\ UNCHANGED <<dbVars, authVars, mapVars, otherVars>>

\* a NavLink of the sidebar is followed
NavSidebar(r) ==
    /\ SidebarShown
    /\ r \in filteredItems(profile) /\ r # route
    /\ route' = r
    /\ PageReset
    /\ UNCHANGED <<dbVars, authVars, mapVars, otherVars>>

\* a Link of the dashboard's Quick Actions card is followed
NavQuickAction(r) ==
    /\ View = "Index"
    /\ r \in QuickActions(profile)
    /\ route' = r
    /\ PageReset
    /\ UNCHANGED <<dbVars, authVars, mapVars, otherVars>>

\* history navigation to a route of the app without a reload
NavUrl(r) ==
    /\ r \in Routes /\ r # route
    /\ route' = r
    /\ PageReset
    /\ UNCHANGED <<dbVars, authVars, mapVars, otherVars>>

(* ----------------------------- AdminPanel ----------------------------- *)
BoolStr(b) == IF b THEN "true" ELSE "false"

\* AdminPanel.fetchReports: .from('reports').select(...) as the session user
fetchReports == SelectReports(authSession)

\* AdminPanel.fetchUsers: .from('profiles').select('*') as the session user
fetchUsers == SelectProfiles(authSession)

\* useEffect(() => { if (isAdmin) { fetchReports(); fetchUsers(); } }, [isAdmin])
\* runs after the mount and after every change of isAdmin
AdminPanel_useEffect ==
    /\ route = "/admin" /\ View \in PageContents
    /\ adminDeps # BoolStr(isAdmin(profile))
    /\ adminDeps' = BoolStr(isAdmin(profile))
    /\ IF isAdmin(profile)
       THEN /\ adminReports' = fetchReports
            /\ adminUsers' = fetchUsers
            /\ adminLoading' = FALSE
       ELSE UNCHANGED <<adminReports, adminUsers, adminLoading>>
    /\ UNCHANGED <<dbVars, authVars, route, selectedReport, dmVars, formVars,
                   mapVars, otherVars>>

\* a row of the Reports Queue is clicked: setSelectedReport(report)
selectReport(rid) ==
    /\ View = "AdminPanel"
    /\ rid \in 1..Len(adminReports)
    /\ selectedReport' = [id |-> rid, status |-> adminReports[rid].status]
    /\ UNCHANGED <<dbVars, authVars, route, adminDeps, adminLoading,
                   adminReports, adminUsers, dmVars, formVars, mapVars, otherVars>>

\* the Verify Report / Reject Report buttons are rendered
VerifyButtonsShown ==
    View = "AdminPanel" /\ selectedReport.id # 0
        /\ selectedReport.status = "pending"

\* AdminPanel.handleVerifyReport(reportId, status), with its fetchReports()
\* refresh and setSelectedReport(null)
handleVerifyReport(st) ==
    /\ VerifyButtonsShown
    /\ st \in {"verified", "rejected"}
    /\ LET rid == selectedReport.id
       IN reports' =
            IF rid \in 1..Len(reports)
            THEN ReportsAfterUpdate(authSession, rid,
                    VerifiedRow(reports[rid], authSession, st, profile.user_id,
                                "handleVerifyReport"))
            ELSE reports
    /\ adminReports' = SelectSeq(reports', LAMBDA row :
                            reports_select_using(authSession, row))
    /\ adminLoading' = FALSE
    /\ selectedReport' = NoSelection
    /\ UNCHANGED <<authUsers, profiles, predictions, alerts, authVars, route,
                   adminDeps, adminUsers, dmVars, formVars, mapVars, otherVars>>

(* ------------------------- DisasterManagement ------------------------- *)
\* useEffect(() => { if (isDisasterManager) fetchDashboardData(); },
\*           [isDisasterManager])
DisasterManagement_useEffect ==
    /\ route = "/disaster" /\ View \in PageContents
    /\ dmDeps # BoolStr(isDisasterManager(profile))
    /\ dmDeps' = BoolStr(isDisasterManager(profile))
    /\ IF isDisasterManager(profile)
       THEN /\ dmReports' = SelectReports(authSession)
            /\ dmTotalUsers' = Len(SelectProfiles(authSession))
            /\ dmLoading' = FALSE
       ELSE UNCHANGED <<dmReports, dmTotalUsers, dmLoading>>
    /\ UNCHANGED <<dbVars, authVars, route, adminVars, dmSelected, formVars,
                   mapVars, otherVars>>

\* the reports whose verify / reject buttons DisasterManagement renders:
\* the pending ones of the fetched list
QuickVerifyShown ==
    IF View = "DisasterManagement"
    THEN {rid \in 1..Len(dmReports) : dmReports[rid].status = "pending"}
    ELSE {}

\* the Eye button or the thumbnail of a row of the Pending Verification
\* Queue is clicked: setSelectedReport(report)
dmSelectReport(rid) ==
    /\ rid \in QuickVerifyShown
    /\ dmSelected = 0
    /\ dmSelected' = rid
    /\ UNCHANGED <<dbVars, authVars, route, adminVars, dmDeps, dmLoading,
                   dmReports, dmTotalUsers, formVars, mapVars, otherVars>>

\* DisasterManagement.handleQuickVerify(reportId, status), with its
\* fetchDashboardData() refresh
QuickVerify(rid, st) ==
    /\ st \in {"verified", "rejected"}
    /\ reports' =
            IF rid \in 1..Len(reports)
            THEN ReportsAfterUpdate(authSession, rid,
                    VerifiedRow(reports[rid], authSession, st, profile.user_id,
                                "handleQuickVerify"))
            ELSE reports
    /\ dmReports' = SelectSeq(reports', LAMBDA row :
                            reports_select_using(authSession, row))
    /\ dmTotalUsers' = Len(SelectProfiles(authSession))
    /\ dmLoading' = FALSE
    /\ UNCHANGED <<authUsers, profiles, predictions, alerts, authVars, route,
                   dmDeps, adminVars, formVars, mapVars, otherVars>>

\* a Verify / Reject button of a listed pending report is clicked
handleQuickVerify(rid, st) ==
    /\ rid \in QuickVerifyShown
    /\ QuickVerify(rid, st)
    /\ UNCHANGED dmSelected

\* a button of the details dialog is clicked:
\* handleQuickVerify(selectedReport.id, status); setSelectedReport(null)
handleQuickVerifySelected(st) ==
    /\ View = "DisasterManagement" /\ dmSelected # 0
    /\ QuickVerify(dmSelected, st)
    /\ dmSelected' = 0

(* ----------------------------- ReportHazard --------------------------- *)
\* ReportHazard.getCurrentLocation succeeding: setLocation({lat, lng})
getCurrentLocation ==
    /\ View = "ReportHazard"
    /\ ~location
    /\ location' = TRUE
    /\ UNCHANGED <<dbVars, authVars, route, adminVars, dmVars, file, inputFile,
                   mapVars, otherVars>>

\* 10 * 1024 * 1024 bytes; the sizes, in bytes, of the files a user can choose
MAX_FILE_SIZE == 10485760

FileSizes == {1024, MAX_FILE_SIZE, MAX_FILE_SIZE + 1, 2 * MAX_FILE_SIZE}

\* variant: a size test that lets every file through
fileNeverTooLarge(size) == FALSE

\* handleFileChange: selectedFile.size > 10 * 1024 * 1024
fileTooLarge(size) == size > MAX_FILE_SIZE

\* ReportHazard.handleFileChange: a file of the given size is chosen in the
\* form's file input (extractExifLocation resolves null on every path, so
\* the location is left alone)
handleFileChange(size) ==
    /\ View = "ReportHazard"
    /\ size \in FileSizes
    /\ inputFile' = <<size>>
    /\ IF fileTooLarge(size)
       THEN toast' = "File Too Large" /\ file' = file
       ELSE file' = <<size>> /\ toast' = toast
    /\ UNCHANGED <<dbVars, authVars, route, adminVars, dmVars, location,
                   mapVars, bucket, dashVars, fnVars, feedVars>>

\* "Authenticated users can upload hazard media": the object's first folder
\* is auth.uid(); uploadFile names the object `${user?.id}/...`
storage_insert_check(uid, folder) == uid # NoUser /\ uid = folder

\* ReportHazard.uploadFile: the bucket after storage.upload(fileName, file)
uploadFile(f) ==
    IF storage_insert_check(authSession, user) THEN bucket \cup {f[1]}
    ELSE bucket

\* ReportHazard.handleSubmit: the selected file, if any, is uploaded (a
\* failed upload throws); then insert({user_id: user.id, ...}) as the
\* session user; on success the form, file and location are reset
handleSubmit ==
    /\ View = "ReportHazard"
    /\ user # NoUser /\ location
    /\ Len(reports) < MaxReports
    /\ LET uploaded == file = <<>> \/ storage_insert_check(authSession, user)
           inserted == ReportsAfterInsert(authSession,
                                NewReport(user, "DEFAULT", "handleSubmit"))
       IN /\ bucket' = IF file = <<>> THEN bucket ELSE uploadFile(file)
          /\ reports' = IF uploaded THEN inserted ELSE reports
          /\ IF uploaded /\ inserted # reports
             THEN /\ toast' = "Report Submitted"
                  /\ file' = <<>> /\ inputFile' = <<>> /\ location' = FALSE
             ELSE /\ toast' = "Submission Failed"
                  /\ UNCHANGED <<file, inputFile, location>>
    /\ UNCHANGED <<authUsers, profiles, predictions, alerts, authVars, route,
                   adminVars, dmVars, mapVars, dashVars, fnVars,
                   feedVars>>

(* ------------- predictions and prediction_alerts (RLS) ---------------- *)
\* "Only analysts and managers can create predictions" (INSERT WITH CHECK)
predictions_insert_check(uid, row) == IsStaff(uid)

\* variant: a policy on prediction_alerts open to every authenticated user
prediction_alerts_authenticated(uid, row) == uid # NoUser

\* "Only analysts and managers can manage alerts" (FOR ALL USING; the same
\* expression checks the rows an INSERT or UPDATE writes)
prediction_alerts_all_using(uid, row) == IsStaff(uid)

\* the rows the migration itself inserts (sample data)
SeedPredictions ==
    [i \in 1..3 |-> [inserted_role |-> "migration"]]

SeedAlerts ==
    [i \in 1..2 |-> [is_active |-> TRUE, inserted_role |-> "migration",
                     updated_role |-> "none"]]

\* INSERT INTO predictions by a request of uid; inserted_role is a history
\* field: the role the request ran with
PredictionsAfterInsert(uid) ==
    LET row == [inserted_role |-> RoleOf(uid)]
    IN IF predictions_insert_check(uid, row) THEN Append(predictions, row)
       ELSE predictions

\* prediction_id UUID NOT NULL REFERENCES public.predictions(id)
prediction_id_ok(pid) == pid \in 1..Len(predictions)

\* INSERT INTO prediction_alerts by a request of uid (prediction_id NOT NULL
\* REFERENCES predictions); inserted_role and updated_role are history
\* fields: the roles the inserting and the last updating request ran with
AlertsAfterInsert(uid, pid) ==
    LET row == [is_active |-> TRUE, inserted_role |-> RoleOf(uid),
                updated_role |-> "none"]
    IN IF prediction_alerts_all_using(uid, row) /\ prediction_id_ok(pid)
       THEN Append(alerts, row)
       ELSE alerts

\* UPDATE prediction_alerts SET acknowledged_at, acknowledged_by, is_active
\* WHERE id = aid by a request of uid
AlertsAfterUpdate(uid, aid) ==
    IF aid \in 1..Len(alerts) /\ prediction_alerts_all_using(uid, alerts[aid])
    THEN [alerts EXCEPT ![aid] = [@ EXCEPT !.is_active = FALSE,
                                           !.updated_role = RoleOf(uid)]]
    ELSE alerts

\* AIPredictions: the Generate New Predictions button is rendered
GenerateButtonShown(p) == p.role = "analyst" \/ p.role = "disaster_manager"

\* PredictionAlerts: the Acknowledge button of an active alert is rendered
AcknowledgeButtonShown(p) == p.role = "analyst" \/ p.role = "disaster_manager"

(* --------------- generate-predictions (edge function) ---------------- *)
\* the unique indexes of public.predictions: the primary key only
predictions_unique == {{"id"}}

\* .upsert(prediction, { onConflict: 'latitude,longitude,hazard_type' }):
\* ON CONFLICT needs a unique index on exactly these columns
upsert_predictions_ok ==
    {"latitude", "longitude", "hazard_type"} \in predictions_unique

\* the alert objects of ai-predictions carry no prediction_id (NULL)
NoPrediction == 0

\* the coastal locations generate-predictions loops over (21 in the source)
Locations == 1..MaxLocations

\* ai-predictions: one prediction per location, and one alert when
\* primaryRisk > 60, else none
AlertsReturned == [Locations -> 0..1]

RECURSIVE Sum(_, _)
Sum(f, n) == IF n = 0 THEN 0 ELSE f[n] + Sum(f, n - 1)

RECURSIVE AppendN(_, _, _)
AppendN(l, row, n) == IF n = 0 THEN l ELSE AppendN(Append(l, row), row, n - 1)

\* generate-predictions invoked by any caller: a service-role client (row-level
\* security bypassed) upserts the predictions and inserts the alerts that
\* ai-predictions returned for each location; a failed statement is skipped
\* and only the successful ones are counted in the response
generate_predictions ==
    \E returned \in AlertsReturned :
        LET upserted == IF upsert_predictions_ok THEN MaxLocations ELSE 0
            inserted == IF prediction_id_ok(NoPrediction)
                        THEN Sum(returned, MaxLocations) ELSE 0
        IN /\ Len(predictions) + upserted
                    <= Len(SeedPredictions) + MaxPredictions
           /\ Len(alerts) + inserted <= Len(SeedAlerts) + MaxAlerts
           /\ predictions' = AppendN(predictions,
                                [inserted_role |-> "service_role"], upserted)
           /\ alerts' = AppendN(alerts,
                                [is_active |-> TRUE,
                                 inserted_role |-> "service_role",
                                 updated_role |-> "none"], inserted)
           /\ gpRun' = [returned |-> Sum(returned, MaxLocations),
                        stored |-> Len(alerts') - Len(alerts),
                        predictions_generated |-> upserted,
                        alerts_generated |-> inserted]
           /\ UNCHANGED <<authUsers, profiles, reports, authVars, route,
                          pageVars, mapVars, toast, bucket, dashVars, ofRun,
                          feedVars>>

(* ------------------- ocean_forecast (edge function) ------------------ *)
\* a member of the JSON request body: absent (undefined after
\* destructuring), null, or a number of degrees
Absent == [kind |-> "undefined", value |-> 0]

Null == [kind |-> "null", value |-> 0]

Number(n) == [kind |-> "number", value |-> n]

BodyLatitudes == {Absent, Null} \cup {Number(n) : n \in {0, 8, 19, -33, 90}}

BodyLongitudes == {Absent, Null} \cup {Number(n) : n \in {0, 72, 88, -80, 180}}

\* JavaScript ToBoolean of such a member: undefined, null and 0 are falsy
ToBoolean(v) == v.kind = "number" /\ v.value # 0

\* !latitude, !longitude
coordinateMissing(v) == ~ToBoolean(v)

NoRequest ==
    [keys |-> FALSE, latitude |-> Absent, longitude |-> Absent,
     fetched |-> FALSE, status |-> 0, body |-> "none"]

\* what the two upstream services can answer
Upstream == {"ok", "forecast failed", "mistral failed"}

\* the handler of a POST: the API keys are checked, then the coordinates;
\* then the forecast is fetched and the model is asked; every throw ends in
\* the catch block, which answers 400 with the error's message
ocean_forecast(keys, latitude, longitude, upstream) ==
    /\ ofRun' =
        IF ~keys
        THEN [keys |-> keys, latitude |-> latitude, longitude |-> longitude,
              fetched |-> FALSE, status |-> 400,
              body |-> "API keys for OpenWeatherMap and Mistral are not fully configured."]
        ELSE IF coordinateMissing(latitude) \/ coordinateMissing(longitude)
        THEN [keys |-> keys, latitude |-> latitude, longitude |-> longitude,
              fetched |-> FALSE, status |-> 400,
              body |-> "Latitude and longitude are required."]
        ELSE [keys |-> keys, latitude |-> latitude, longitude |-> longitude,
              fetched |-> TRUE,
              status |-> IF upstream = "ok" THEN 200 ELSE 400,
              body |-> CASE upstream = "ok" -> "prediction"
                         [] upstream = "forecast failed" ->
                                "Failed to fetch weather forecast"
                         [] OTHER -> "Mistral API Error"]
    /\ UNCHANGED <<dbVars, authVars, route, pageVars, mapVars, toast, bucket,
                   dashVars, gpRun, feedVars>>

(* ------------------ MapView: realtime subscription ------------------- *)
\* no data yet: the initial useState([]) / a SELECT not yet run
NoData == -1

\* fetchReports is called: a request is sent; it is now the most recently
\* started one
startFetchReports ==
    /\ mvStarted' = mvStarted + 1
    /\ mvFetches' = mvFetches \cup {[n |-> mvStarted + 1, data |-> NoData]}
    /\ mvLatest' = NoData

\* an INSERT, UPDATE or DELETE on table reports by anyone; the realtime
\* server queues a postgres_changes event for a subscribed channel
reportsChanged ==
    /\ mvDb < MaxChanges
    /\ mvDb' = mvDb + 1
    /\ mvEvents' = IF mvMounted THEN mvEvents + 1 ELSE mvEvents
    /\ UNCHANGED <<mvMounted, mvStarted, mvFetches, mvLatest, mvReports>>
    /\ UNCHANGED <<dbVars, authVars, route, pageVars, mapVars, toast, bucket,
                   dashVars, fnVars>>

\* useEffect(() => { fetchReports(); channel...subscribe() }, [])
MapView_useEffect ==
    /\ ~mvMounted
    /\ mvMounted' = TRUE
    /\ startFetchReports
    /\ UNCHANGED <<mvDb, mvEvents, mvReports>>
    /\ UNCHANGED <<dbVars, authVars, route, pageVars, mapVars, toast, bucket,
                   dashVars, fnVars>>

\* the channel's callback on a postgres_changes event: () => fetchReports()
onPostgresChanges ==
    /\ mvMounted /\ mvEvents > 0
    /\ mvEvents' = mvEvents - 1
    /\ startFetchReports
    /\ UNCHANGED <<mvDb, mvMounted, mvReports>>
    /\ UNCHANGED <<dbVars, authVars, route, pageVars, mapVars, toast, bucket,
                   dashVars, fnVars>>

\* the server runs the SELECT of an in-flight fetchReports: the data are the
\* contents of the table at that moment
selectReports(f) ==
    /\ f \in mvFetches /\ f.data = NoData
    /\ mvFetches' = (mvFetches \ {f}) \cup {[n |-> f.n, data |-> mvDb]}
    /\ mvLatest' = IF f.n = mvStarted THEN mvDb ELSE mvLatest
    /\ UNCHANGED <<mvDb, mvMounted, mvEvents, mvStarted, mvReports>>
    /\ UNCHANGED <<dbVars, authVars, route, pageVars, mapVars, toast, bucket,
                   dashVars, fnVars>>

\* the awaits of an in-flight fetchReports resolve: setReports(data)
setReports(f) ==
    /\ f \in mvFetches /\ f.data # NoData
    /\ mvReports' = f.data
    /\ mvFetches' = mvFetches \ {f}
    /\ UNCHANGED <<mvDb, mvMounted, mvEvents, mvStarted, mvLatest>>
    /\ UNCHANGED <<dbVars, authVars, route, pageVars, mapVars, toast, bucket,
                   dashVars, fnVars>>

(* ------------- requests of any client of the REST interface ----------- *)
\* who can send a request: a signed-up user, or nobody (the anon key)
Requesters == authUsers \cup {NoUser}

ApiInsertReport(uid, owner, st) ==
    /\ uid \in Requesters /\ owner \in Users /\ st \in report_status
    /\ Len(reports) < MaxReports
    /\ reports' = ReportsAfterInsert(uid, NewReport(owner, st, "api"))
    /\ UNCHANGED <<authUsers, profiles, predictions, alerts, authVars, route,
                   pageVars, mapVars, otherVars>>

ApiUpdateReport(uid, rid, st) ==
    /\ uid \in Requesters /\ rid \in 1..Len(reports) /\ st \in report_status
    /\ reports' = ReportsAfterUpdate(uid, rid,
            [reports[rid] EXCEPT
                !.status = st,
                !.status_role = IF st # reports[rid].status THEN RoleOf(uid) ELSE @,
                !.status_via = IF st # reports[rid].status THEN "api" ELSE @])
    /\ UNCHANGED <<authUsers, profiles, predictions, alerts, authVars, route,
                   pageVars, mapVars, otherVars>>

ApiUpdateProfile(uid, i, r) ==
    /\ uid \in Requesters /\ i \in 1..Len(profiles) /\ r \in user_role
    /\ profiles' =
        IF profiles_update_using(uid, profiles[i])
        THEN [profiles EXCEPT ![i] = [@ EXCEPT !.role = r]]
        ELSE profiles
    /\ UNCHANGED <<authUsers, reports, predictions, alerts, authVars, route,
                   pageVars, mapVars, otherVars>>

\* profiles.user_id is UNIQUE and REFERENCES auth.users
ApiInsertProfile(uid, target, r) ==
    /\ uid \in Requesters /\ target \in Users /\ r \in user_role
    /\ LET row == [user_id |-> target, role |-> r, via |-> "api"]
       IN profiles' =
            IF /\ profiles_insert_check(uid, row)
               /\ target \in authUsers
               /\ ProfilesOf(target) = {}
            THEN Append(profiles, row)
            ELSE profiles
    /\ UNCHANGED <<authUsers, reports, predictions, alerts, authVars, route,
                   pageVars, mapVars, otherVars>>

ApiInsertPrediction(uid) ==
    /\ uid \in Requesters
    /\ Len(predictions) < Len(SeedPredictions) + MaxPredictions
    /\ predictions' = PredictionsAfterInsert(uid)
    /\ UNCHANGED <<authUsers, profiles, reports, alerts, authVars, route,
                   pageVars, mapVars, otherVars>>

ApiInsertAlert(uid, pid) ==
    /\ uid \in Requesters /\ pid \in 1..Len(predictions)
    /\ Len(alerts) < Len(SeedAlerts) + MaxAlerts
    /\ alerts' = AlertsAfterInsert(uid, pid)
    /\ UNCHANGED <<authUsers, profiles, reports, predictions, authVars, route,
                   pageVars, mapVars, otherVars>>

ApiUpdateAlert(uid, aid) ==
    /\ uid \in Requesters /\ aid \in 1..Len(alerts)
    /\ alerts' = AlertsAfterUpdate(uid, aid)
    /\ UNCHANGED <<authUsers, profiles, reports, predictions, authVars, route,
                   pageVars, mapVars, otherVars>>

(* ----------------------- MapboxMap: alert zones ------------------------ *)
\* const RADIUS_KM = 50
RADIUS_KM == 50

\* the Earth radius of "const distance = 6371 * c"
EARTH_RADIUS_KM == 6371

\* Reports of the map lie on one meridian (deltaLng = 0), their latitudes in
\* tenths of a degree.  There a = sin(deltaLat/2)^2, so
\* c = 2 * atan2(sqrt(a), sqrt(1 - a)) = |deltaLat| in radians and
\* distance = 6371 * |deltaLat| * PI / 180; computed here in metres, with
\* PI = 31416 / 10000: tenths * 6371 * 1000 * 31416 / (10 * 180 * 10000).
Latitudes == {0, 3, 6, 10}

Abs(x) == IF x < 0 THEN -x ELSE x

distance(report, otherReport) ==
    (Abs(otherReport.latitude - report.latitude) * EARTH_RADIUS_KM * 31416)
        \div 18000

\* variant: a filter callback without the distance test
isNearbyNoRadius(report, otherReport, processedReports) ==
    ~(otherReport.id \in processedReports \/ report.id = otherReport.id)

\* the filter callback of nearbyReports
isNearby(report, otherReport, processedReports) ==
    IF otherReport.id \in processedReports \/ report.id = otherReport.id
    THEN FALSE
    ELSE distance(report, otherReport) <= RADIUS_KM * 1000

\* verifiedReports.forEach(report => ...), from index i on
RECURSIVE forEachVerified(_, _, _, _)
forEachVerified(verifiedReports, i, processedReports, zones) ==
    IF i > Len(verifiedReports) THEN zones
    ELSE
      LET report == verifiedReports[i]
          nearbyReports ==
              SelectSeq(verifiedReports,
                        LAMBDA o : isNearby(report, o, processedReports))
          allReports == <<report>> \o nearbyReports
      IN IF report.id \in processedReports
         THEN forEachVerified(verifiedReports, i + 1, processedReports, zones)
         ELSE IF Len(nearbyReports) >= 1
         THEN forEachVerified(verifiedReports, i + 1,
                  processedReports \cup {allReports[k].id : k \in 1..Len(allReports)},
                  Append(zones, [radius |-> RADIUS_KM * 1000,
                                 reportCount |-> Len(allReports),
                                 reports |-> allReports]))
         ELSE forEachVerified(verifiedReports, i + 1, processedReports, zones)

\* MapboxMap: calculateAlertZones, the value passed to setAlertZones
calculateAlertZones(rs) ==
    forEachVerified(SelectSeq(rs, LAMBDA r : r.status = "verified"), 1, {}, <<>>)

\* the reports lists the map can be given: ids are the rows' keys
MapReportLists ==
    UNION {[1..n -> [status : report_status, latitude : Latitudes]] :
                n \in 0..MaxZoneReports}

WithIds(l) == [i \in 1..Len(l) |->
                 [id |-> i, status |-> l[i].status, latitude |-> l[i].latitude]]

\* useEffect(() => { calculateAlertZones(); }, [reports])
MapboxMap_useEffect ==
    /\ alertZones' = calculateAlertZones(mapReports)
    /\ UNCHANGED <<dbVars, authVars, route, pageVars, mapReports, otherVars>>

(* --------------------------- specifications --------------------------- *)
InitDb ==
    /\ authUsers = {} /\ profiles = <<>> /\ reports = <<>>
    /\ predictions = SeedPredictions /\ alerts = SeedAlerts

InitClient ==
    /\ authSession = NoUser
    /\ boot = {"getSession", "INITIAL_SESSION"}
    /\ user = NoUser /\ profile = NoProfile /\ loading = TRUE
    /\ profilePending = {}
    /\ route = "/"
    /\ PageInit

InitUpload ==
    /\ toast = "none" /\ bucket = {}

InitDash ==
    /\ now = 0 /\ dashReports = <<>>
    /\ pendingQueue = <<>> /\ criticalAlerts = <<>>

InitFunctions ==
    /\ gpRun = [returned |-> 0, stored |-> 0, predictions_generated |-> 0,
                alerts_generated |-> 0]
    /\ ofRun = NoRequest

InitFeed ==
    /\ mvDb = 0 /\ mvMounted = FALSE /\ mvEvents = 0 /\ mvStarted = 0
    /\ mvFetches = {} /\ mvLatest = NoData /\ mvReports = NoData

InitOther ==
    /\ InitUpload /\ InitDash /\ InitFunctions /\ InitFeed

Init ==
    /\ InitDb /\ InitClient /\ InitOther
    /\ mapReports = <<>> /\ alertZones = <<>>

Next ==
    \/ signUp
    \/ \E m \in MetaRoles : signUpWithRole(m)
    \/ Reload
    \/ getSession_then
    \/ InitialSession
    \/ \E s \in Users : profileFetched(s)
    \/ \E s \in Users : signIn(s)
    \/ signOut
    \/ NavigateAuth
    \/ \E r \in Routes : NavSidebar(r)
    \/ \E r \in Routes : NavQuickAction(r)
    \/ \E r \in Routes : NavUrl(r)
    \/ AdminPanel_useEffect
    \/ \E rid \in 1..MaxReports : selectReport(rid)
    \/ \E st \in report_status : handleVerifyReport(st)
    \/ DisasterManagement_useEffect
    \/ \E rid \in 1..MaxReports : dmSelectReport(rid)
    \/ \E rid \in 1..MaxReports, st \in report_status : handleQuickVerify(rid, st)
    \/ \E st \in report_status : handleQuickVerifySelected(st)
    \/ getCurrentLocation
    \/ handleSubmit

Spec == Init /\ [][Next]_vars

\* the client without the page handlers: sign-ups, the AuthProvider events
\* and navigation
NextAuth ==
    \/ signUp
    \/ \E m \in MetaRoles : signUpWithRole(m)
    \/ Reload
    \/ getSession_then
    \/ InitialSession
    \/ \E s \in Users : profileFetched(s)
    \/ \E s \in Users : signIn(s)
    \/ signOut
    \/ NavigateAuth
    \/ \E r \in Routes : NavSidebar(r)
    \/ \E r \in Routes : NavQuickAction(r)
    \/ \E r \in Routes : NavUrl(r)

SpecAuth == Init /\ [][NextAuth]_vars

\* the client with the report form and no other page handler
NextForm ==
    \/ NextAuth
    \/ getCurrentLocation
    \/ \E size \in FileSizes : handleFileChange(size)
    \/ handleSubmit

SpecForm == Init /\ [][NextForm]_vars

\* sign-ups and arbitrary requests to the REST interface on profiles and
\* reports, which the row-level security policies decide (the requests of
\* the application's handlers are among them)
NextRLS ==
    \/ signUpStep
    \/ \E m \in MetaRoles : signUpWithRole(m)
    \/ \E uid \in Users \cup {NoUser}, owner \in Users, st \in report_status :
            ApiInsertReport(uid, owner, st)
    \/ \E uid \in Users \cup {NoUser}, rid \in 1..MaxReports, st \in report_status :
            ApiUpdateReport(uid, rid, st)
    \/ \E uid \in Users \cup {NoUser}, i \in 1..MaxUsers, r \in user_role :
            ApiUpdateProfile(uid, i, r)
    \/ \E uid \in Users \cup {NoUser}, t \in Users, r \in user_role :
            ApiInsertProfile(uid, t, r)

SpecRLS == Init /\ [][NextRLS]_vars

\* sign-ups, role changes and arbitrary requests to the REST interface on
\* predictions and prediction_alerts
NextPredictions ==
    \/ \E m \in MetaRoles : signUpWithRole(m)
    \/ \E uid \in Users \cup {NoUser}, i \in 1..MaxUsers, r \in user_role :
            ApiUpdateProfile(uid, i, r)
    \/ generate_predictions
    \/ \E uid \in Users \cup {NoUser} : ApiInsertPrediction(uid)
    \/ \E uid \in Users \cup {NoUser}, pid \in 1..(Len(SeedPredictions) + MaxPredictions) :
            ApiInsertAlert(uid, pid)
    \/ \E uid \in Users \cup {NoUser}, aid \in 1..(Len(SeedAlerts) + MaxAlerts) :
            ApiUpdateAlert(uid, aid)

SpecPredictions == Init /\ [][NextPredictions]_vars

\* the alert-zone computation over every reports list within the bounds
InitZones ==
    /\ InitDb /\ InitClient /\ InitOther
    /\ mapReports \in {WithIds(l) : l \in MapReportLists}
    /\ alertZones = <<>>

NextZones == MapboxMap_useEffect

SpecZones == InitZones /\ [][NextZones]_vars

(* ---------------- DisasterManagement: urgency levels ------------------ *)
hazard_type == {"tsunami", "flood", "high_waves", "storm_surge",
                "abnormal_sea_behavior"}

urgentTypes == {"tsunami", "storm_surge"}

\* (new Date().getTime() - new Date(report.created_at).getTime())
\*     / (1000 * 60 * 60) < hours, with times kept in minutes
recentHoursBelow(report, t, hours) == t - report.created_at < hours * 60

\* variant: the two age limits are inclusive
getUrgencyLevelInclusive(report, t) ==
    IF report.hazard_type \in urgentTypes
            \/ t - report.created_at <= 2 * 60
    THEN [level |-> "high", text |-> "High Priority"]
    ELSE IF t - report.created_at <= 12 * 60
         THEN [level |-> "medium", text |-> "Medium Priority"]
         ELSE [level |-> "low", text |-> "Standard"]

getUrgencyLevel(report, t) ==
    IF report.hazard_type \in urgentTypes \/ recentHoursBelow(report, t, 2)
    THEN [level |-> "high", text |-> "High Priority"]
    ELSE IF recentHoursBelow(report, t, 12)
         THEN [level |-> "medium", text |-> "Medium Priority"]
         ELSE [level |-> "low", text |-> "Standard"]

\* Array.prototype.slice(0, n) on a sequence
slice(l, n) == SubSeq(l, 1, IF Len(l) < n THEN Len(l) ELSE n)

isPending(r) == r.status = "pending"

\* reports.filter(r => r.status === 'pending').slice(0, 5)
pendingReports(rs) == slice(SelectSeq(rs, isPending), 5)

\* reports.filter(r => r.status === 'pending'
\*                      && getUrgencyLevel(r).level === 'high')
urgentReports(rs, t) ==
    LET isUrgent(r) == r.status = "pending"
                        /\ getUrgencyLevel(r, t).level = "high"
    IN SelectSeq(rs, isUrgent)

\* the render of the dashboard for a disaster manager: the Critical Alerts
\* card lists urgentReports, the queue lists pendingReports with a badge
DisasterManagement_render ==
    /\ criticalAlerts' = [i \in 1..Len(urgentReports(dashReports, now)) |->
                              urgentReports(dashReports, now)[i].id]
    /\ pendingQueue' = [i \in 1..Len(pendingReports(dashReports)) |->
            <<pendingReports(dashReports)[i].id,
              getUrgencyLevel(pendingReports(dashReports)[i], now).level>>]
    /\ UNCHANGED <<dbVars, authVars, route, pageVars, mapVars, toast, bucket,
                   now, dashReports, fnVars, feedVars>>

\* the reports a dashboard can hold: ordered by created_at descending, as
\* fetchDashboardData asks; ages of 1 h 59 min, 2 h and 12 h at time Noon
Noon == 12 * 60

DashCreatedAt == {Noon - 119, Noon - 120, 0}

DashHazards == {"tsunami", "flood"}

DashStatuses == {"pending", "verified"}

\* .order('created_at', { ascending: false }): each row is no newer than
\* the one before it
OrderedByCreatedAt(l) ==
    \A i \in 1..Len(l) - 1 : l[i].created_at >= l[i + 1].created_at

RECURSIVE DashLists(_)
DashLists(n) ==
    IF n = 0 THEN {<<>>}
    ELSE LET shorter == DashLists(n - 1)
         IN shorter \cup
            {l \in {Append(x, [id |-> n, hazard_type |-> h, created_at |-> c,
                               status |-> st]) :
                        x \in {y \in shorter : Len(y) = n - 1},
                        h \in DashHazards, c \in DashCreatedAt,
                        st \in DashStatuses} :
                OrderedByCreatedAt(l)}

InitUrgency ==
    /\ InitDb /\ InitClient /\ InitUpload /\ InitFunctions /\ InitFeed
    /\ mapReports = <<>> /\ alertZones = <<>>
    /\ now = Noon
    /\ dashReports \in DashLists(MaxDashReports)
    /\ pendingQueue = <<>> /\ criticalAlerts = <<>>

NextUrgency == DisasterManagement_render

SpecUrgency == InitUrgency /\ [][NextUrgency]_vars

NextForecast ==
    \E keys \in BOOLEAN, latitude \in BodyLatitudes,
       longitude \in BodyLongitudes, upstream \in Upstream :
        ocean_forecast(keys, latitude, longitude, upstream)

SpecForecast == Init /\ [][NextForecast]_vars

NextFeed ==
    \/ reportsChanged
    \/ MapView_useEffect
    \/ onPostgresChanges
    \/ \E f \in mvFetches : selectReports(f)
    \/ \E f \in mvFetches : setReports(f)

SpecFeed == Init /\ [][NextFeed]_vars

(* ------------------------------ properties ---------------------------- *)
\* C1: every report created by ReportHazard.handleSubmit is stored with
\* status pending and with verified_by and verified_at unset, and its status
\* is pending unless AdminPanel.handleVerifyReport or
\* DisasterManagement.handleQuickVerify changed it.
C1_SubmittedPendingUntilVerified ==
    \A rid \in 1..Len(reports) :
        reports[rid].created_via = "handleSubmit" =>
            /\ reports[rid].status_via \in
                    {"none", "handleVerifyReport", "handleQuickVerify"}
            /\ reports[rid].status_via = "none" =>
                    /\ reports[rid].status = "pending"
                    /\ reports[rid].verified_by = NoUser
                    /\ ~reports[rid].verified_at

\* a submitted report, still pending, listed for verification
C1_Witness ==
    \E rid \in QuickVerifyShown :
        /\ rid \in 1..Len(reports)
        /\ reports[rid].created_via = "handleSubmit"
        /\ reports[rid].status = "pending"

\* C2: the status of a report is changed only by an update of a user whose
\* profile role is analyst or disaster_manager; no update that the policies
\* permit to a citizen changes a status (status_role is "none" while the
\* status has never been changed).
C2_StatusChangedOnlyByStaff ==
    \A rid \in 1..Len(reports) :
        reports[rid].status_role \in {"none"} \cup StaffRoles

\* C3: under the protected route a page's content is rendered only when
\* loading is false and a user is signed in; with loading false and no user
\* the app redirects to /auth; while loading it shows the spinner only.
C3_ProtectedRouteGate ==
    route \in ProtectedRoutes =>
        /\ View \in PageContents => (~loading /\ user # NoUser)
        /\ (~loading /\ user = NoUser) => View = "NavigateAuth"
        /\ loading => View = "Spinner"

\* a reload with a stored session: the user is known, loading still true
C3_Witness ==
    /\ route \in ProtectedRoutes \ {"/"}
    /\ loading /\ user # NoUser
    /\ View = "Spinner"

\* C4: with a profile that is not loaded or has role citizen, AdminPanel
\* returns Access Denied and renders no verify / reject button, and no step
\* taken there fetches reports or users or writes a report (the page's state
\* stays as it is, or is reset by leaving the page); the queue is reached
\* with role analyst or disaster_manager only.
C4_AdminPanelGate ==
    [][/\ (route' = "/admin" /\ View' \in PageContents) =>
            IF profile'.role \in StaffRoles
            THEN View' \in {"AdminLoading", "AdminPanel"}
            ELSE View' = "AccessDenied" /\ ~VerifyButtonsShown'
       /\ (route = "/admin" /\ View \in PageContents
                /\ profile.role \notin StaffRoles) =>
            \/ UNCHANGED <<adminReports, adminUsers, adminLoading, reports>>
            \/ PageInit' /\ reports' = reports]_vars

\* a signed-in citizen on /admin, after the page's effect has run
C4_Witness ==
    /\ route = "/admin" /\ user # NoUser
    /\ profile.role = "citizen"
    /\ adminDeps = "false"
    /\ View = "AccessDenied"
    /\ Len(reports) > 0

C6_CitizenCannotReachStaffPages ==
    (user # NoUser /\ profile.role = "citizen"
        /\ route \in DOMAIN navigationItems
        /\ navigationItems[route] = StaffRoles)
    => View \notin (PageContents \ {"AccessDenied"})

\* C7: every auth user has exactly one profile row, every profile row
\* belongs to an auth user, and a row created through AuthProvider.signUp
\* has role citizen.
C7_OneProfilePerUser ==
    /\ \A u \in authUsers : Cardinality(ProfilesOf(u)) = 1
    /\ \A i \in 1..Len(profiles) :
        /\ profiles[i].user_id \in authUsers
        /\ profiles[i].via = "AuthProvider.signUp" => profiles[i].role = "citizen"

\* a user registered through AuthProvider.signUp next to one whose sign-up
\* metadata named a staff role
C7_Witness ==
    \E i, j \in 1..Len(profiles) :
        /\ profiles[i].via = "AuthProvider.signUp"
        /\ profiles[j].via = "metadata" /\ profiles[j].role \in StaffRoles

C9_ZonesWellFormed ==
    \A z \in 1..Len(alertZones) :
        LET members == alertZones[z].reports
        IN /\ Len(members) >= 2
           /\ alertZones[z].reportCount = Len(members)
           /\ \A k \in 1..Len(members) :
                /\ members[k].status = "verified"
                /\ \E i \in 1..Len(mapReports) : mapReports[i] = members[k]
                /\ k > 1 =>
                    /\ members[k].id # members[1].id
                    /\ distance(members[1], members[k]) <= RADIUS_KM * 1000

\* a zone of two next to a verified report too far from its seed
C9_Witness ==
    /\ Len(alertZones) = 1
    /\ alertZones[1].reportCount = 2
    /\ \E i \in 1..Len(mapReports) :
        /\ mapReports[i].status = "verified"
        /\ \A k \in 1..2 : alertZones[1].reports[k].id # mapReports[i].id

\* C10: when AdminPanel's effect fetches for an analyst or disaster manager,
\* the users list it stores has a row for every row of profiles.
C10_FetchUsersCoversProfiles ==
    [][(adminDeps # "true" /\ adminDeps' = "true") =>
            {adminUsers'[i].user_id : i \in 1..Len(adminUsers')}
                = {profiles'[i].user_id : i \in 1..Len(profiles')}]_vars

\* C11: a chosen file larger than 10 MB draws the toast File Too Large and
\* leaves the selected file as it was; the selected file is never larger
\* than 10 MB, and no object larger than 10 MB is ever in the bucket.
C11_LargeFileRejected ==
    [][/\ (inputFile' # inputFile /\ inputFile' # <<>>
                /\ inputFile'[1] > 10 * 1024 * 1024) =>
            (toast' = "File Too Large" /\ file' = file /\ bucket' = bucket)
       /\ file' # <<>> => file'[1] <= 10 * 1024 * 1024
       /\ \A size \in bucket' : size <= 10 * 1024 * 1024]_vars

\* a file of at most 10 MB is selected, a larger one has just been refused
\* and stays in the input, and the location is set, so a submit can follow
C11_Witness ==
    /\ inputFile # <<>> /\ inputFile[1] > 10 * 1024 * 1024
    /\ toast = "File Too Large"
    /\ file # <<>> /\ location

\* C12: getUrgencyLevel gives high exactly for tsunami, storm_surge or an
\* age below 2 hours, medium exactly for the others below 12 hours, low for
\* the rest; once rendered, the Critical Alerts card holds exactly the
\* pending reports classified high, in the order of the reports list.
C12_UrgencyAndCriticalAlerts ==
    LET IsHigh(r) == r.hazard_type = "tsunami" \/ r.hazard_type = "storm_surge"
                        \/ now - r.created_at < 120
    IN
    /\ \A h \in hazard_type, c \in DashCreatedAt :
          LET r == [hazard_type |-> h, created_at |-> c]
              level == getUrgencyLevel(r, now).level
          IN /\ level = "high" <=> IsHigh(r)
             /\ level = "medium" <=> (~IsHigh(r) /\ now - r.created_at < 720)
             /\ level = "low" <=> (~IsHigh(r) /\ ~(now - r.created_at < 720))
    /\ (pendingQueue # <<>> \/ criticalAlerts # <<>>) =>
          /\ {criticalAlerts[k] : k \in 1..Len(criticalAlerts)} =
                {i \in 1..Len(dashReports) :
                    dashReports[i].status = "pending"
                        /\ IsHigh(dashReports[i])}
          /\ \A k \in 1..Len(criticalAlerts) - 1 :
                criticalAlerts[k] < criticalAlerts[k + 1]

\* six pending reports are rendered: the queue shows the first five, among
\* them a high and a medium one, and the sixth is outside the queue and on
\* the Critical Alerts card
C12_Witness ==
    /\ Len(pendingQueue) = 5
    /\ \E k \in 1..Len(criticalAlerts) :
          /\ criticalAlerts[k] = 6
          /\ \A q \in 1..5 : pendingQueue[q][1] # 6
    /\ \E q \in 1..5 : pendingQueue[q][2] = "medium"
    /\ \E q \in 1..5 : pendingQueue[q][2] = "high"

\* C13: after a run of generate-predictions, every alert that ai-predictions
\* returned is a stored row of prediction_alerts, and alerts_generated in
\* the response is the number of alert rows the run stored.
C13_AlertsSavedAndCounted ==
    /\ gpRun.stored = gpRun.returned
    /\ gpRun.alerts_generated = gpRun.stored

\* C14: ocean_forecast answers "Latitude and longitude are required." only
\* when latitude or longitude is absent from the body (or null), and every
\* request with the API keys configured and a numeric latitude and
\* longitude, 0 included, proceeds to the weather forecast fetch.
C14_RequiredOnlyWhenAbsent ==
    /\ ofRun.body = "Latitude and longitude are required." =>
            (ofRun.latitude.kind # "number" \/ ofRun.longitude.kind # "number")
    /\ (ofRun.keys /\ ofRun.latitude.kind = "number"
            /\ ofRun.longitude.kind = "number") => ofRun.fetched

\* C15: when calculateAlertZones has run, every verified report that has
\* another verified report within 50 km is a member of one of the zones,
\* whatever the order of the reports list.
C15_NeighbouredReportInSomeZone ==
    [][\A i \in 1..Len(mapReports) :
          (/\ mapReports[i].status = "verified"
           /\ \E j \in 1..Len(mapReports) :
                 /\ j # i
                 /\ mapReports[j].status = "verified"
                 /\ distance(mapReports[i], mapReports[j]) <= 50 * 1000)
          => \E z \in 1..Len(alertZones') :
                \E k \in 1..Len(alertZones'[z].reports) :
                    alertZones'[z].reports[k].id = mapReports[i].id]_vars

\* C16: in MapView, when no change event is waiting to be delivered and no
\* fetchReports is in flight, the reports shown are the data of the most
\* recently started fetchReports, which are the current contents of the
\* table.
C16_ShownIsLatestFetch ==
    (mvMounted /\ mvEvents = 0 /\ mvFetches = {}) =>
        (mvReports = mvLatest /\ mvReports = mvDb)

====
